---- MODULE Spec2Model ----
(***************************************************************************)
(* A model of filter.py: the walk over the directory tree with its file    *)
(* name filter, the parse of every selected file, the RelaxNG validation   *)
(* loop, the extraction loop over the edition division of every parsed     *)
(* document, and the report.                                               *)
(*                                                                         *)
(* Strings are sequences of Unicode code points (str) or of bytes (bytes); *)
(* the string each tuple spells is given in the comment beside it.         *)
(***************************************************************************)
EXTENDS Integers, Sequences, FiniteSets, TLC

\* The number of files of the tree whose content the corpus varies.
MaxFiles == 3

(***************************************************************************)
(* String primitives of Python, as filter.py uses them.                    *)
(***************************************************************************)
Min(S) == CHOOSE x \in S : \A y \in S : x <= y

\* the start indices of the occurrences of sub in s
Occ(s, sub) ==
  {i \in 1..(Len(s) - Len(sub) + 1) : SubSeq(s, i, i + Len(sub) - 1) = sub}

\* sub in s
Contains(s, sub) == Occ(s, sub) # {}

\* s[-4:]
Last4(s) == IF Len(s) <= 4 THEN s ELSE SubSeq(s, Len(s) - 3, Len(s))

\* s[1:]
Drop1(s) == IF Len(s) <= 1 THEN <<>> ELSE SubSeq(s, 2, Len(s))

\* s.partition(sep)
partition(s, sep) ==
  IF Occ(s, sep) = {}
  THEN <<s, <<>>, <<>>>>
  ELSE LET i == Min(Occ(s, sep))
       IN <<SubSeq(s, 1, i - 1), sep, SubSeq(s, i + Len(sep), Len(s))>>

\* s.split(sep), with a separator: empty fields are kept
RECURSIVE split(_, _)
split(s, sep) ==
  IF Occ(s, sep) = {}
  THEN <<s>>
  ELSE LET p == partition(s, sep) IN <<p[1]>> \o split(p[3], sep)

\* sep.join(parts)
RECURSIVE join(_, _)
join(sep, parts) ==
  IF parts = <<>> THEN <<>>
  ELSE IF Len(parts) = 1 THEN parts[1]
  ELSE parts[1] \o sep \o join(sep, Tail(parts))

\* the bytes that bytes.split() takes as white space: \t \n \v \f \r and space
AsciiSpace == {9, 10, 11, 12, 13, 32}

\* b.split(), without a separator: split on runs of ASCII white space
RECURSIVE bytes_split(_)
bytes_split(b) ==
  IF b = <<>> THEN <<>>
  ELSE IF b[1] \in AsciiSpace THEN bytes_split(Tail(b))
  ELSE LET stops == {i \in 1..Len(b) : b[i] \in AsciiSpace}
           n     == IF stops = {} THEN Len(b) + 1 ELSE Min(stops)
       IN <<SubSeq(b, 1, n - 1)>> \o bytes_split(SubSeq(b, n, Len(b)))

\* b.lower() of a bytes object: only the ASCII letters A-Z change
bytes_lower(b) ==
  [i \in 1..Len(b) |-> IF b[i] \in 65..90 THEN b[i] + 32 ELSE b[i]]

\* the UTF-8 encoding of one code point
Utf8Char(c) ==
  IF c < 128 THEN <<c>>
  ELSE IF c < 2048 THEN <<192 + (c \div 64), 128 + (c % 64)>>
  ELSE IF c < 65536
  THEN <<224 + (c \div 4096), 128 + ((c \div 64) % 64), 128 + (c % 64)>>
  ELSE <<240 + (c \div 262144), 128 + ((c \div 4096) % 64),
         128 + ((c \div 64) % 64), 128 + (c % 64)>>

\* s.encode('UTF-8')
RECURSIVE Utf8(_)
Utf8(s) == IF s = <<>> THEN <<>> ELSE Utf8Char(s[1]) \o Utf8(Tail(s))

\* a < b for two strings, as Python compares them: by code point, then length
RECURSIVE StrLess(_, _)
StrLess(a, b) ==
  IF b = <<>> THEN FALSE
  ELSE IF a = <<>> THEN TRUE
  ELSE IF a[1] # b[1] THEN a[1] < b[1]
  ELSE StrLess(Tail(a), Tail(b))

\* sorted(list(S)) of a set of strings
RECURSIVE sorted(_)
sorted(S) ==
  IF S = {} THEN <<>>
  ELSE LET m == CHOOSE x \in S : \A y \in S \ {x} : StrLess(x, y)
       IN <<m>> \o sorted(S \ {m})

\* the set of the members of a list: set(l)
SetOf(l) == {l[i] : i \in 1..Len(l)}

\* os.path.join(a, b) for a relative b
PathJoin(a, b) == IF a # <<>> /\ a[Len(a)] = 47 THEN a \o b ELSE a \o <<47>> \o b

(***************************************************************************)
(* Constants of filter.py.                                                 *)
(***************************************************************************)
\* NS['t'] = "http://www.tei-c.org/ns/1.0"
NS_t == <<104, 116, 116, 112, 58, 47, 47, 119, 119, 119, 46, 116, 101, 105,
          45, 99, 46, 111, 114, 103, 47, 110, 115, 47, 49, 46, 48>>
\* ".xml"
DotXml == <<46, 120, 109, 108>>
\* "template"
Template == <<116, 101, 109, 112, 108, 97, 116, 101>>
\* ".git"
DotGit == <<46, 103, 105, 116>>
\* "div"
DivTag == <<100, 105, 118>>
\* "edition"
Edition == <<101, 100, 105, 116, 105, 111, 110>>
\* "/"
Slash == <<47>>
\* "{"
OpenBrace == <<123>>
\* "}"
CloseBrace == <<125>>
\* a line feed
Newline == <<10>>

\* The names and texts of the documents and of the tree below.
\* "TEI"
TagTEI == <<84, 69, 73>>
\* "text"
TagText == <<116, 101, 120, 116>>
\* "body"
TagBody == <<98, 111, 100, 121>>
\* "p"
TagP == <<112>>
\* "persName"
TagPersName == <<112, 101, 114, 115, 78, 97, 109, 101>>
\* "ab"
TagAb == <<97, 98>>
\* "lb"
TagLb == <<108, 98>>
\* "note"
TagNote == <<110, 111, 116, 101>>
\* "seg"
TagSeg == <<115, 101, 103>>
\* "Hello "
TxtHelloSp == <<72, 101, 108, 108, 111, 32>>
\* "hello"
TxtHello == <<104, 101, 108, 108, 111>>
\* "world"
TxtWorld == <<119, 111, 114, 108, 100>>
\* " world"
TxtSpWorld == <<32, 119, 111, 114, 108, 100>>
\* U+0391 GREEK CAPITAL LETTER ALPHA, a space, U+03B1 GREEK SMALL LETTER ALPHA
TxtAlphas == <<913, 32, 945>>
\* "Hi"
TxtHi == <<72, 105>>
\* " stray words"
TxtStray == <<32, 115, 116, 114, 97, 121, 32, 119, 111, 114, 100, 115>>
\* "one"
TxtOne == <<111, 110, 101>>
\* "two three"
TxtTwoThree == <<116, 119, 111, 32, 116, 104, 114, 101, 101>>
\* "s"
NameS == <<115>>
\* "o"
NameO == <<111>>
\* "templates"
NameTemplates == <<116, 101, 109, 112, 108, 97, 116, 101, 115>>
\* "g.xml"
FnG == <<103, 46, 120, 109, 108>>
\* "h.xml"
FnH == <<104, 46, 120, 109, 108>>
\* "k.xml"
FnK == <<107, 46, 120, 109, 108>>
\* ": "
TitleSep == <<58, 32>>

(***************************************************************************)
(* XML documents, as lxml holds them.  An element has a namespace (<<>>    *)
(* for none), a local name, a type attribute (<<>> when absent), the text  *)
(* before its first child, its children, and its tail: the text between    *)
(* its end tag and the next tag.                                           *)
(***************************************************************************)
El(ns, tag, type, text, kids, tail) ==
  [ns |-> ns, tag |-> tag, type |-> type, text |-> text, kids |-> kids,
   tail |-> tail]

\* the text nodes inside an element, in document order
RECURSIVE InnerText(_), KidsText(_)
InnerText(e) == e.text \o KidsText(e.kids)
KidsText(ks) ==
  IF ks = <<>> THEN <<>>
  ELSE InnerText(ks[1]) \o ks[1].tail \o KidsText(Tail(ks))

\* etree.tostring(e, method='text', encoding='UTF-8'): with_tail is left at
\* its default, True, so the element's tail is serialized after its content
tostring_text(e) == Utf8(InnerText(e) \o e.tail)

\* the descendant elements of e, in document order
RECURSIVE Descendants(_), KidsDescendants(_)
Descendants(e) == KidsDescendants(e.kids)
KidsDescendants(ks) ==
  IF ks = <<>> THEN <<>>
  ELSE <<ks[1]>> \o Descendants(ks[1]) \o KidsDescendants(Tail(ks))

\* doc.xpath("//t:div[@type='edition']", namespaces=NS)
xpath_edition_divs(root) ==
  SelectSeq(<<root>> \o Descendants(root),
            LAMBDA e : e.ns = NS_t /\ e.tag = DivTag /\ e.type = Edition)

\* e.xpath('descendant::t:*', namespaces=NS)
xpath_descendant_t(e) == SelectSeq(Descendants(e), LAMBDA x : x.ns = NS_t)

\* e.tag: "{namespace}local", or the bare name of an element in no namespace
etree_tag(e) ==
  IF e.ns = <<>> THEN e.tag ELSE OpenBrace \o e.ns \o CloseBrace \o e.tag

\* the value of a variable that is not bound
None == <<-1>>

\* t.split('}')[0]: the part before the brace
LocalName_BeforeBrace(t) == split(t, CloseBrace)[1]

\* t.split('}')[1], for a tag that holds a '}'
LocalName(t) == split(t, CloseBrace)[2]

(***************************************************************************)
(* The corpus: the documents a file of the tree can hold.                  *)
(***************************************************************************)
Tei(tag, type, text, kids, tail) == El(NS_t, tag, type, text, kids, tail)
TeiDoc(valid, divs) ==
  [wf |-> TRUE, valid |-> valid,
   root |-> Tei(TagTEI, <<>>, <<>>,
              <<Tei(TagText, <<>>, <<>>,
                  <<Tei(TagBody, <<>>, <<>>, divs, <<>>)>>, <<>>)>>, <<>>)]
\* "translation"
Translation == <<116, 114, 97, 110, 115, 108, 97, 116, 105, 111, 110>>
\* a namespace other than TEI's: "http://example.org/x"
NS_x == <<104, 116, 116, 112, 58, 47, 47, 101, 120, 97, 109, 112, 108, 101, 46,
          111, 114, 103, 47, 120>>

\* <div type="edition"><p>Hello <persName>hello</persName></p>\n<p>world</p></div>\n
\* <div type="translation"><p>Hi</p></div>
DocHello ==
  TeiDoc(TRUE,
    <<Tei(DivTag, Edition, <<>>,
        <<Tei(TagP, <<>>, TxtHelloSp,
            <<Tei(TagPersName, <<>>, TxtHello, <<>>, <<>>)>>, Newline),
          Tei(TagP, <<>>, TxtWorld, <<>>, <<>>)>>, Newline),
      Tei(DivTag, Translation, <<>>,
        <<Tei(TagP, <<>>, TxtHi, <<>>, <<>>)>>, <<>>)>>)

\* <div type="edition"><ab>hello<lb/> world</ab></div>
DocPlain ==
  TeiDoc(TRUE,
    <<Tei(DivTag, Edition, <<>>,
        <<Tei(TagAb, <<>>, TxtHello,
            <<Tei(TagLb, <<>>, <<>>, <<>>, TxtSpWorld)>>, <<>>)>>, <<>>)>>)

\* <div type="edition"><ab>hello</ab></div> stray words
DocTail ==
  TeiDoc(FALSE,
    <<Tei(DivTag, Edition, <<>>,
        <<Tei(TagAb, <<>>, TxtHello, <<>>, <<>>)>>, TxtStray)>>)

\* <div type="edition"><ab>[GREEK CAPITAL ALPHA] [GREEK SMALL ALPHA]</ab>
\* <x:note xmlns:x="http://example.org/x"/><seg xmlns=""/></div>
DocForeign ==
  TeiDoc(FALSE,
    <<Tei(DivTag, Edition, <<>>,
        <<Tei(TagAb, <<>>, TxtAlphas, <<>>, <<>>),
          El(NS_x, TagNote, <<>>, <<>>, <<>>, <<>>),
          El(<<>>, TagSeg, <<>>, <<>>, <<>>, <<>>)>>, <<>>)>>)

\* no edition division: <div type="translation"><p>Hi</p></div>
DocNoDiv ==
  TeiDoc(FALSE,
    <<Tei(DivTag, Translation, <<>>,
        <<Tei(TagP, <<>>, TxtHi, <<>>, <<>>)>>, <<>>)>>)

\* two edition divisions:
\* <div type="edition"><ab>one</ab></div><div type="edition"><ab>two three</ab></div>
DocTwoDivs ==
  TeiDoc(FALSE,
    <<Tei(DivTag, Edition, <<>>,
        <<Tei(TagAb, <<>>, TxtOne, <<>>, <<>>)>>, <<>>),
      Tei(DivTag, Edition, <<>>,
        <<Tei(TagAb, <<>>, TxtTwoThree, <<>>, <<>>)>>, <<>>)>>)

\* a file that is not well-formed XML; err is the parser's message
DocMalformed == [wf |-> FALSE, err |-> "XMLSyntaxError"]

Contents ==
  <<DocHello, DocPlain, DocTail, DocForeign, DocNoDiv, DocTwoDivs, DocMalformed>>

(***************************************************************************)
(* The directory tree under the root that is walked.                       *)
(*   /c            template-a.xml  a.xml                                   *)
(*   /c/.git       g.xml                                                   *)
(*   /c/.git/o     h.xml                                                   *)
(*   /c/s          my-template.xml  c.xml  d.xml ...                       *)
(*   /c/s/.git     k.xml                                                   *)
(*   /c/templates  n.txt  b.xml                                            *)
(* The files a.xml, b.xml, ... hold the documents the corpus chooses; the  *)
(* other .xml files hold DocPlain and n.txt is not XML.                    *)
(***************************************************************************)
\* os.path.realpath(args.whence): "/c"
Whence == <<47, 99>>
DirGit == PathJoin(Whence, DotGit)
DirGitO == PathJoin(DirGit, NameO)
DirS == PathJoin(Whence, NameS)
DirSGit == PathJoin(DirS, DotGit)
DirTemplates == PathJoin(Whence, NameTemplates)

\* "a.xml", "b.xml", "c.xml", "d.xml", "e.xml"
VarNames ==
  <<<<97, 46, 120, 109, 108>>, <<98, 46, 120, 109, 108>>,
    <<99, 46, 120, 109, 108>>, <<100, 46, 120, 109, 108>>,
    <<101, 46, 120, 109, 108>>>>
VarFiles == 1..MaxFiles
VarDir(i) == IF i = 1 THEN Whence ELSE IF i = 2 THEN DirTemplates ELSE DirS
VarPath(i) == PathJoin(VarDir(i), VarNames[i])
VarIn(dir) == {VarNames[i] : i \in {j \in VarFiles : VarDir(j) = dir}}

\* "template-a.xml"
FnTemplateA == <<116, 101, 109, 112, 108, 97, 116, 101, 45, 97, 46, 120, 109, 108>>
\* "my-template.xml"
FnMyTemplate == <<109, 121, 45, 116, 101, 109, 112, 108, 97, 116, 101, 46, 120, 109, 108>>
\* "n.txt"
FnNotes == <<110, 46, 116, 120, 116>>

\* what os.walk lists in a directory: the names of its subdirectories and files
ListDirs(dir) ==
  IF dir = Whence THEN {DotGit, NameS, NameTemplates}
  ELSE IF dir = DirGit THEN {NameO}
  ELSE IF dir = DirS THEN {DotGit}
  ELSE {}
ListFiles(dir) ==
  VarIn(dir) \cup
  (IF dir = Whence THEN {FnTemplateA}
   ELSE IF dir = DirGit THEN {FnG}
   ELSE IF dir = DirGitO THEN {FnH}
   ELSE IF dir = DirS THEN {FnMyTemplate}
   ELSE IF dir = DirSGit THEN {FnK}
   ELSE IF dir = DirTemplates THEN {FnNotes}
   ELSE {})
\* the orders in which a directory listing can come
Orders(S) ==
  {q \in [1..Cardinality(S) -> S] : \A i, j \in 1..Cardinality(S) : q[i] = q[j] => i = j}

(***************************************************************************)
(* The state of one run of filter.py.                                      *)
(***************************************************************************)
VARIABLES
  corpus,              \* the document each varied file of the tree holds
  pc,                  \* where main() is: "walk", "validate", "extract",
                       \* "report", and "done" or "crashed" at the end
  stack,               \* os.walk: the directories still to be listed
  cur,                 \* root of the os.walk loop, None between two levels
  files,               \* the files of cur the inner loop has still to visit
  dirs,                \* the dirs list os.walk handed out for cur
  title,               \* the variable title of main(), None while unbound
  docs,                \* the list docs
  v,                   \* the count of valid documents
  i,                   \* the position of the loop over docs
  words_all, words_count, words_unique, words_unique_count, tags,
  log,                 \* the records logger.error has emitted
  log_for,             \* history: the file each record was emitted for
  out,                 \* the lines printed to standard output
  rp,                  \* the next line of the report
  exit_code,           \* the exit code of the process, -1 while it runs
  scanned,             \* history: the paths of the files the walk listed
  parsed               \* history: the paths handed to etree.parse

vars == <<corpus, pc, stack, cur, files, dirs, title, docs, v, i, words_all,
          words_count, words_unique, words_unique_count, tags, log, log_for,
          out, rp, exit_code, scanned, parsed>>

walkVars == <<stack, cur, files, dirs>>
statVars == <<words_all, words_count, words_unique, words_unique_count, tags>>
histVars == <<scanned, parsed>>

\* what a file of the tree holds
FileDoc(fpath) ==
  IF \E k \in VarFiles : VarPath(k) = fpath
  THEN Contents[corpus[CHOOSE k \in VarFiles : VarPath(k) = fpath]]
  ELSE IF Last4(fpath) = DotXml THEN DocPlain ELSE DocMalformed

\* the filter without its second test: fn[-4:] == '.xml' alone
Selected_AnyXml(fn) == Last4(fn) = DotXml

\* the filter testing the start of the name only: not fn.startswith('template')
Selected_PrefixOnly(fn) ==
  /\ Last4(fn) = DotXml
  /\ ~(Len(fn) >= Len(Template) /\ SubSeq(fn, 1, Len(Template)) = Template)

\* a name passes the filter: fn[-4:] == '.xml' and 'template' not in fn
Selected(fn) == Last4(fn) = DotXml /\ ~Contains(fn, Template)

\* ': '.join(fpath.partition(whence)[2][1:].split('/'))
MakeTitle(fpath, whence) ==
  join(TitleSep, split(Drop1(partition(fpath, whence)[3]), Slash))

\* the loop body without the removal of '.git'
Prune_Nothing(ds) == ds

\* if '.git' in dirs: dirs.remove('.git')
Prune(ds) == SelectSeq(ds, LAMBDA d : d # DotGit)

\* if schema.validate(d['doc']): v += 1
CountValid(n, ok) == IF ok THEN n + 1 ELSE n

\* text = etree.tostring(divs[0], ...); words = text.split()
Words(div) == bytes_split(tostring_text(div))

\* list(set([w.lower() for w in words])); the order of the list is the set's
\* iteration order, which nothing reads: only its length is used
UniqueWords(words) ==
  sorted({bytes_lower(words[k]) : k \in 1..Len(words)})

\* the list of unique words kept free of duplicates across documents
ExtendUnique_Global(all, words) ==
  all \o SelectSeq(words, LAMBDA w : w \notin SetOf(all))

\* words_unique.extend(words)
ExtendUnique(all, words) == all \o words

\* tags.extend([e.tag for e in descendants])
ExtendTags(all, div) ==
  LET ds == xpath_descendant_t(div)
  IN all \o [k \in 1..Len(ds) |-> etree_tag(ds[k])]

\* tags = [t.split('}')[1] for t in tags]; tags = sorted(list(set(tags)))
TagNames(ts) == sorted({LocalName(ts[k]) : k \in 1..Len(ts)})

RECURSIVE Sum(_)
Sum(xs) == IF xs = <<>> THEN 0 ELSE xs[1] + Sum(Tail(xs))
SumSq(xs) == Sum([k \in 1..Len(xs) |-> xs[k] * xs[k]])

\* statistics.mean(xs) of at least one data point: the fraction num/den
mean(xs) == [num |-> Sum(xs), den |-> Len(xs)]

\* statistics.stdev(xs) of at least two data points: the square root of the
\* sample variance sqrt_num/sqrt_den
stdev(xs) ==
  [sqrt_num |-> Len(xs) * SumSq(xs) - Sum(xs) * Sum(xs),
   sqrt_den |-> Len(xs) * (Len(xs) - 1)]

\* the number of data points under which statistics.mean and
\* statistics.stdev raise StatisticsError
MeanRaises(xs) == Len(xs) < 1
StdevRaises(xs) == Len(xs) < 2

Line(label, value) == [label |-> label, value |-> value]

Init ==
  /\ corpus \in [VarFiles -> 1..Len(Contents)]
  /\ pc = "walk"
  /\ stack = <<Whence>>
  /\ cur = None
  /\ files = {}
  /\ dirs = <<>>
  /\ title = None
  /\ docs = <<>>
  /\ v = 0
  /\ i = 0
  /\ words_all = <<>>
  /\ words_count = <<>>
  /\ words_unique = <<>>
  /\ words_unique_count = <<>>
  /\ tags = <<>>
  /\ log = <<>>
  /\ log_for = <<>>
  /\ out = <<>>
  /\ rp = 0
  /\ exit_code = -1
  /\ scanned = {}
  /\ parsed = {}

\* except Exception as e: print("ERROR, UNEXPECTED EXCEPTION"); print(str(e));
\* traceback.print_exc(); os._exit(1)
Crash(e) ==
  /\ pc' = "crashed"
  /\ out' = out \o <<Line("ERROR, UNEXPECTED EXCEPTION", e)>>
  /\ exit_code' = 1

\* for root, dirs, files in os.walk(whence): the walk lists the next directory
WalkYield ==
  /\ pc = "walk" /\ cur = None /\ stack # <<>>
  /\ cur' = Head(stack)
  /\ stack' = Tail(stack)
  /\ files' = ListFiles(Head(stack))
  /\ dirs' \in Orders(ListDirs(Head(stack)))
  /\ scanned' = scanned \cup {PathJoin(Head(stack), f) : f \in ListFiles(Head(stack))}
  /\ UNCHANGED <<corpus, pc, title, docs, v, i, statVars, log, log_for, out,
                 rp, exit_code, parsed>>

\* for fn in files: one pass of the inner loop, on any file still to visit
VisitFile ==
  /\ pc = "walk" /\ cur # None
  /\ \E fn \in files :
       /\ files' = files \ {fn}
       /\ IF Selected(fn)
          THEN LET fpath == PathJoin(cur, fn)
                   t     == MakeTitle(fpath, Whence)
                   doc   == FileDoc(fpath)
               IN /\ title' = t
                  /\ parsed' = parsed \cup {fpath}
                  /\ IF doc.wf
                     THEN /\ docs' = Append(docs, [title |-> t, doc |-> fpath])
                          /\ UNCHANGED <<log, log_for>>
                     ELSE /\ log' = Append(log, [title |-> t, msg |-> doc.err])
                          /\ log_for' = Append(log_for, fpath)
                          /\ UNCHANGED docs
          ELSE UNCHANGED <<title, parsed, docs, log, log_for>>
  /\ UNCHANGED <<corpus, pc, stack, cur, dirs, v, i, statVars, out, rp,
                 exit_code, scanned>>

\* the end of the loop body, and os.walk going on: '.git' is removed from
\* dirs, and the walk then descends into what dirs still names, in order
PruneAndDescend ==
  /\ pc = "walk" /\ cur # None /\ files = {}
  /\ LET kept == Prune(dirs)
     IN stack' = [k \in 1..Len(kept) |-> PathJoin(cur, kept[k])] \o stack
  /\ cur' = None
  /\ dirs' = <<>>
  /\ UNCHANGED <<corpus, pc, files, title, docs, v, i, statVars, log, log_for,
                 out, rp, exit_code, histVars>>

\* the walk is over: the separator and the number of well-formed files
PrintWellFormed ==
  /\ pc = "walk" /\ cur = None /\ stack = <<>>
  /\ out' = out \o <<Line("separator", 80),
                     Line("number of well-formed files", Len(docs))>>
  /\ v' = 0
  /\ i' = 1
  /\ pc' = "validate"
  /\ UNCHANGED <<corpus, walkVars, title, docs, statVars, log, log_for, rp,
                 exit_code, histVars>>

\* for d in docs: schema.validate(d['doc']); the record of an invalid
\* document is formatted with the variable title
Validate ==
  /\ pc = "validate" /\ i <= Len(docs)
  /\ LET d == docs[i]
     IN /\ v' = CountValid(v, FileDoc(d.doc).valid)
        /\ IF FileDoc(d.doc).valid
           THEN UNCHANGED <<log, log_for>>
           ELSE /\ log' = Append(log, [title |-> title, msg |-> "invalid"])
                /\ log_for' = Append(log_for, d.doc)
  /\ i' = i + 1
  /\ UNCHANGED <<corpus, pc, walkVars, title, docs, statVars, out, rp,
                 exit_code, histVars>>

\* the number of valid files, and the empty lists of the statistics
PrintValid ==
  /\ pc = "validate" /\ i > Len(docs)
  /\ out' = Append(out, Line("number of valid files", v))
  /\ words_all' = <<>>
  /\ words_count' = <<>>
  /\ words_unique' = <<>>
  /\ words_unique_count' = <<>>
  /\ tags' = <<>>
  /\ i' = 1
  /\ pc' = "extract"
  /\ UNCHANGED <<corpus, walkVars, title, docs, v, log, log_for, rp,
                 exit_code, histVars>>

\* for d in docs: one pass of the loop over the edition divisions; divs[0]
\* raises IndexError when the document has none
Extract ==
  /\ pc = "extract" /\ i <= Len(docs)
  /\ LET d    == docs[i]
         divs == xpath_edition_divs(FileDoc(d.doc).root)
     IN /\ IF Len(divs) # 1
           THEN /\ log' = Append(log, [title |-> title,
                                       msg |-> "wrong number of divs"])
                /\ log_for' = Append(log_for, d.doc)
           ELSE UNCHANGED <<log, log_for>>
        /\ IF divs = <<>>
           THEN /\ Crash("IndexError")
                /\ UNCHANGED <<docs, i, statVars>>
           ELSE LET words == Words(divs[1])
                    uniq  == UniqueWords(words)
                IN /\ words_all' = words_all \o words
                   /\ words_count' = Append(words_count, Len(words))
                   /\ words_unique' = ExtendUnique(words_unique, uniq)
                   /\ words_unique_count' = Append(words_unique_count, Len(uniq))
                   /\ tags' = ExtendTags(tags, divs[1])
                   /\ docs' = [docs EXCEPT ![i] =
                                 [title |-> d.title, doc |-> d.doc,
                                  words |-> Len(words),
                                  words_unique |-> Len(uniq)]]
                   /\ i' = i + 1
                   /\ UNCHANGED <<pc, out, exit_code>>
  /\ UNCHANGED <<corpus, walkVars, title, v, rp, histVars>>

\* the loop over docs is over
StartReport ==
  /\ pc = "extract" /\ i > Len(docs)
  /\ pc' = "report"
  /\ rp' = 1
  /\ UNCHANGED <<corpus, walkVars, title, docs, v, i, statVars, log, log_for,
                 out, exit_code, histVars>>

\* the value the rp-th print of the report formats
ReportLabel(k) ==
  CASE k = 1 -> "total word count across all files"
    [] k = 2 -> "mean words per edition"
    [] k = 3 -> "standard deviation in words per edition"
    [] k = 4 -> "total unique words across all files"
    [] k = 5 -> "mean unique words per edition"
    [] k = 6 -> "standard deviation in unique words per edition"
    [] k = 7 -> "tags used in editions"
ReportValue(k) ==
  CASE k = 1 -> Len(words_all)
    [] k = 2 -> mean(words_count)
    [] k = 3 -> stdev(words_count)
    [] k = 4 -> Len(words_unique)
    [] k = 5 -> mean(words_unique_count)
    [] k = 6 -> stdev(words_unique_count)
    [] k = 7 -> TagNames(tags)

\* the exception the rp-th print of the report raises, "" for none: mean and
\* stdev raise StatisticsError, t.split('}')[1] raises IndexError
ReportRaises(k) ==
  CASE k = 2 /\ MeanRaises(words_count) -> "StatisticsError"
    [] k = 3 /\ StdevRaises(words_count) -> "StatisticsError"
    [] k = 5 /\ MeanRaises(words_unique_count) -> "StatisticsError"
    [] k = 6 /\ StdevRaises(words_unique_count) -> "StatisticsError"
    [] k = 7 /\ (\E n \in 1..Len(tags) : ~Contains(tags[n], CloseBrace)) -> "IndexError"
    [] OTHER -> ""

\* one print of the report; after the last line main() returns and
\* sys.exit(0) ends the run
Report ==
  /\ pc = "report"
  /\ IF ReportRaises(rp) # ""
     THEN /\ Crash(ReportRaises(rp))
          /\ UNCHANGED rp
     ELSE /\ out' = Append(out, Line(ReportLabel(rp), ReportValue(rp)))
          /\ IF rp = 7
             THEN pc' = "done" /\ exit_code' = 0 /\ UNCHANGED rp
             ELSE rp' = rp + 1 /\ UNCHANGED <<pc, exit_code>>
  /\ UNCHANGED <<corpus, walkVars, title, docs, v, i, statVars, log, log_for,
                 histVars>>

Next ==
  \/ WalkYield
  \/ VisitFile
  \/ PruneAndDescend
  \/ PrintWellFormed
  \/ Validate
  \/ PrintValid
  \/ Extract
  \/ StartReport
  \/ Report

Spec == Init /\ [][Next]_vars

(***************************************************************************)
(* What the claims speak of, stated on paths and documents themselves.     *)
(***************************************************************************)
EndsWith(s, suf) ==
  Len(s) >= Len(suf) /\ SubSeq(s, Len(s) - Len(suf) + 1, Len(s)) = suf

\* the path of a file below the root of the walk, and its segments
RelPath(fpath) == SubSeq(fpath, Len(Whence) + 2, Len(fpath))
RelSegments(fpath) == split(RelPath(fpath), Slash)

\* the name of a file: what follows the last "/" of its path
NameOf(fpath) ==
  LET slashes == {k \in 1..Len(fpath) : fpath[k] = 47}
      last    == CHOOSE k \in slashes : \A n \in slashes : n <= k
  IN SubSeq(fpath, last + 1, Len(fpath))

\* the name ends in ".xml" and holds no "template"
Eligible(fpath) ==
  EndsWith(NameOf(fpath), DotXml) /\ ~Contains(NameOf(fpath), Template)

\* the path lies beneath a directory named ".git"
UnderGit(fpath) == Contains(Slash \o RelPath(fpath), Slash \o DotGit \o Slash)

\* the title of a file: its path below the root, the segments joined by ": "
OwnTitle(fpath) == join(TitleSep, RelSegments(fpath))

Finished == pc \in {"done", "crashed"}
DocPaths == {docs[k].doc : k \in 1..Len(docs)}
Extracted(d) == "words" \in DOMAIN d
EditionDivs(fpath) == xpath_edition_divs(FileDoc(fpath).root)
Reported(label) == {out[k].value : k \in {n \in 1..Len(out) : out[n].label = label}}
LogsFor(fpath) == {k \in 1..Len(log) : log_for[k] = fpath}

\* lower case of a code point: the ASCII and the Greek capital letters
FoldChar(c) ==
  IF c \in 65..90 \/ c \in 913..929 \/ c \in 931..939 THEN c + 32 ELSE c
Fold(w) == [k \in 1..Len(w) |-> FoldChar(w[k])]
\* the white space separated tokens of a text
Tokens(text) == bytes_split(text)

\* C1: a file that fails XML parsing is not counted as well-formed and adds
\* nothing to the statistics, exactly one error is logged for it, carrying
\* its own title, and the run completes and prints the full report.
C1_MalformedFileHandled ==
  Finished =>
    \A f \in parsed :
      ~FileDoc(f).wf =>
        /\ f \notin DocPaths
        /\ Cardinality(LogsFor(f)) = 1
        /\ \A k \in LogsFor(f) : log[k].title = OwnTitle(f)
        /\ pc = "done"
        /\ Reported("tags used in editions") # {}

\* C2: with fewer than two well-formed documents the run does not end with
\* an exception of the statistics: with one document the mean is that
\* document's count, and the run completes.
C2_SmallCorpusNoCrash ==
  (Len(docs) < 2 /\ pc \in {"report", "done", "crashed"}) =>
    /\ ~(pc = "crashed" /\ out[Len(out)].value = "StatisticsError")
    /\ pc = "done" =>
         /\ Len(docs) = 1
         /\ \A m \in Reported("mean words per edition") :
              m.num = docs[1].words * m.den

\* C3: at every point of the run the valid count is at most the well-formed
\* count, which is at most the number of scanned files whose name ends in
\* ".xml" and holds no "template".
C3_CountsOrdered ==
  /\ v <= Len(docs)
  /\ Len(docs) <= Cardinality({f \in scanned : Eligible(f)})
  /\ \A n \in Reported("number of valid files") :
       \A w \in Reported("number of well-formed files") : n <= w

C3_Witness ==
  /\ pc = "extract"
  /\ 1 <= v /\ v < Len(docs)
  /\ Len(docs) < Cardinality({f \in scanned : Eligible(f)})

\* C4: the walk never lists a directory beneath one named ".git": no file
\* beneath it is scanned, parsed, counted or part of a statistic.
C4_GitNeverEntered ==
  /\ cur # None => ~UnderGit(PathJoin(cur, DotXml))
  /\ \A k \in 1..Len(stack) : ~UnderGit(PathJoin(stack[k], DotXml))
  /\ \A f \in scanned \cup parsed \cup DocPaths : ~UnderGit(f)

C4_Witness ==
  /\ pc = "done"
  /\ \E f \in parsed : SubSeq(f, 1, Len(DirS) + 1) = DirS \o Slash
  /\ Len(docs) = MaxFiles

\* C5: a file whose name holds "template" is never parsed and never counted;
\* only names that end in ".xml" and hold no "template" are selected.
C5_TemplateNeverSelected ==
  /\ \A f \in parsed \cup DocPaths : f \in scanned /\ Eligible(f)
  /\ cur = None => parsed = {f \in scanned : Eligible(f)}

C5_Witness ==
  /\ pc = "done"
  /\ PathJoin(Whence, FnTemplateA) \in scanned
  /\ PathJoin(DirS, FnMyTemplate) \in scanned
  /\ PathJoin(DirTemplates, VarNames[2]) \in DocPaths

\* C6: for a document with exactly one edition division, the recorded word
\* count is the number of white space separated tokens of the text inside
\* that division, and the recorded unique-word count is the number of
\* distinct tokens after folding every token to lower case.
C6_WordCounts ==
  \A k \in 1..Len(docs) :
    (Extracted(docs[k]) /\ Len(EditionDivs(docs[k].doc)) = 1) =>
      LET inside == Tokens(InnerText(EditionDivs(docs[k].doc)[1]))
      IN /\ docs[k].words = Len(inside)
         /\ docs[k].words_unique =
              Cardinality({Fold(inside[n]) : n \in 1..Len(inside)})

\* C7: the reported total of unique words is the sum over the documents of
\* their unique-word counts.
C7_TotalUniqueIsSum ==
  \A t \in Reported("total unique words across all files") :
    t = Sum([k \in 1..Len(docs) |-> docs[k].words_unique])

C7_Witness ==
  /\ Reported("total unique words across all files") = {4}
  /\ Len(docs) = 2
  /\ docs[1].words_unique = 2 /\ docs[2].words_unique = 2
  /\ Cardinality(SetOf(words_unique)) = 2

\* the local names of the elements under the first edition division of the
\* documents, of the elements that e picks
NamesUnder(e(_)) ==
  UNION {{x.tag : x \in {y \in SetOf(Descendants(EditionDivs(f)[1])) : e(y)}}
         : f \in {g \in DocPaths : EditionDivs(g) # <<>>}}
StrictlySorted(l) == \A k \in 1..(Len(l) - 1) : StrLess(l[k], l[k + 1])

\* C8, as stated: the reported tag list is the sorted, duplicate-free list
\* of the local names of every descendant element, of any kind, under the
\* matched edition division of the documents.
C8_AllDescendantTags ==
  \A l \in Reported("tags used in editions") :
    StrictlySorted(l) /\ SetOf(l) = NamesUnder(LAMBDA y : TRUE)

\* C8, amended: the reported tag list is the sorted, duplicate-free list of
\* the local names of every descendant element in the TEI namespace under
\* the matched edition division of the documents.
C8_TeiDescendantTags ==
  \A l \in Reported("tags used in editions") :
    StrictlySorted(l) /\ SetOf(l) = NamesUnder(LAMBDA y : y.ns = NS_t)

C8_Witness ==
  /\ Reported("tags used in editions") = {<<TagP, TagPersName>>}
  /\ \E n \in 1..Len(tags) : \E m \in 1..Len(tags) : n # m /\ tags[n] = tags[m]

\* C9: every record logged about a document carries that document's title.
C9_LogCarriesOwnTitle ==
  \A k \in 1..Len(log) :
    log[k].msg \in {"invalid", "wrong number of divs"} =>
      log[k].title = OwnTitle(log_for[k])

\* C10: for a document whose number of edition divisions is not one, an
\* error is logged and the run goes on: the first match is used, the other
\* documents are processed and the full report is printed.
C10_WrongDivsRunContinues ==
  Finished =>
    \A f \in DocPaths :
      Len(EditionDivs(f)) # 1 =>
        /\ \E k \in LogsFor(f) : log[k].msg = "wrong number of divs"
        /\ pc = "done"
        /\ \A k \in 1..Len(docs) : Extracted(docs[k])

====
